---- MODULE Spec2Model ----
(***************************************************************************)
(* Model of script/setup.py of rhino3dm: the command-line driver that      *)
(* generates the platform-specific project files with CMake and runs the   *)
(* MethodGen code generator.                                                *)
(*                                                                          *)
(* The orchestrator is one sequential process (variable pc).  The only      *)
(* concurrency is between run_command's reader loop and the child process   *)
(* it has spawned, which communicate through the stdout and stderr pipes.   *)
(* The filesystem is a function from the absolute paths that exist to       *)
(* their kind; a path is a sequence of components whose first is "/".       *)
(***************************************************************************)
EXTENDS Integers, Sequences, FiniteSets, TLC

VARIABLES
    host,            \* sys.platform (_platform)
    overwrite,       \* global overwrite (--overwrite)
    verbose,         \* global verbose (--verbose)
    args,            \* args.platform, the names read so far by main's loop
    fs,              \* filesystem: existing absolute path -> "file" | "dir"
    cwd,             \* process working directory
    pc,              \* position of the orchestrator
    exitStatus,      \* -1 while running, else the process exit status
    exitReason,      \* why the process ended
    platform_target, \* setup_handler's argument
    ti,              \* setup_handler: index in valid_platform_args ("all")
    plat,            \* the setup_<plat> function being run ("" when none)
    target_path,     \* local of setup_<plat>
    abi,             \* setup_android: index in app_abis (0 outside the loop)
    abi_target_path, \* local of setup_android
    item_to_check,   \* local of setup_<plat>
    stage,           \* which command run_command is running: gen/build/run
    child,           \* the spawned process
    outBuf,          \* stdout pipe: lines written and not yet read
    errBuf,          \* stderr pipe
    line,            \* run_command: result of the last stdout.readline()
    echoed,          \* run_command: stdout lines printed so far
    trace,           \* history of the current setup_<plat> call
    started,         \* history of the current setup_handler call: platforms
    outcomes,        \* ... and the values their setup functions returned
    launched,        \* history: this run launched an external process
    created,         \* history: directories created by this run
    gate,            \* history: the last overwrite_check call
    fs0              \* history: fs when the current setup_<plat> was called

vars == <<host, overwrite, verbose, args, fs, cwd, pc, exitStatus, exitReason,
          platform_target, ti, plat, target_path, abi, abi_target_path,
          item_to_check, stage, child, outBuf, errBuf, line, echoed,
          trace, started, outcomes, launched, created, gate, fs0>>

----------------------------------------------------------------------------
(* Bounds of the model *)

\* longest sequence of writes a child process performs before it exits
MaxChildOps == 2
\* lines a pipe holds before the writer blocks
PipeCap == 1

----------------------------------------------------------------------------
(* Globals (setup.py lines 26-34) *)

valid_platform_args == <<"js", "ios", "macos", "android", "windows">>

platform_full_names ==
    [p \in {"js", "ios", "macos", "android", "windows"} |->
        CASE p = "js" -> "JavaScript"
          [] p = "ios" -> "iOS"
          [] p = "macos" -> "macOS"
          [] p = "android" -> "Android"
          [] p = "windows" -> "Windows"]

\* str.lower() on the five display names
lower(s) ==
    CASE s = "JavaScript" -> "javascript"
      [] s = "iOS" -> "ios"
      [] s = "macOS" -> "macos"
      [] s = "Android" -> "android"
      [] s = "Windows" -> "windows"

script_folder == <<"/", "script">>
src_folder == <<"/", "src">>
build_folder == <<"/", "src", "build">>
librhino3dm_native_folder == <<"/", "src", "librhino3dm_native">>

app_abis == <<"armeabi-v7a", "arm64-v8a", "x86_64", "x86">>

\* a name that is neither "all" nor in valid_platform_args
InvalidName == "bogus"

Range(s) == {s[i] : i \in 1..Len(s)}

----------------------------------------------------------------------------
(* Paths and the filesystem (os.path, os, shutil) *)

\* the empty string '' is the empty path; a relative path lacks the root
IsAbs(p) == p # <<>> /\ p[1] = "/"

\* os.path.join(a, name): '' joined with a name is the relative name
join(a, name) == a \o <<name>>

\* os.path.abspath(p) in working directory d
abspath(d, p) == IF IsAbs(p) THEN p ELSE d \o p

\* os.path.exists: '' does not exist
exists(f, d, p) == p # <<>> /\ abspath(d, p) \in DOMAIN f

isfile(f, d, p) == exists(f, d, p) /\ f[abspath(d, p)] = "file"

isdir(f, d, p) == exists(f, d, p) /\ f[abspath(d, p)] = "dir"

IsPrefix(p, q) == Len(p) <= Len(q) /\ SubSeq(q, 1, Len(p)) = p

\* f with path q of kind k added
AddPath(f, q, k) == [x \in DOMAIN f \cup {q} |-> IF x = q THEN k ELSE f[x]]

\* os.remove of a file
remove(f, q) == [x \in DOMAIN f \ {q} |-> f[x]]

\* shutil.rmtree: the directory and everything below it
rmtree(f, q) == [x \in {y \in DOMAIN f : ~IsPrefix(q, y)} |-> f[x]]

----------------------------------------------------------------------------
(* Platform profiles, as the five setup_<platform> functions spell them *)

\* a variant in which setup_windows lacks its host check
RequiredHostsNoWindowsCheck(p) ==
    CASE p \in {"ios", "macos"} -> {"darwin"}
      [] OTHER -> {"darwin", "win32", "win64", "linux"}

\* the hosts on which a platform's setup function goes on
RequiredHosts(p) ==
    CASE p \in {"ios", "macos"} -> {"darwin"}
      [] p = "windows" -> {"win32", "win64"}
      [] OTHER -> {"darwin", "win32", "win64", "linux"}

\* the file or folder whose existence tells that the generator has run
target_file_name(p) ==
    CASE p \in {"ios", "macos"} -> "librhino3dm_native.xcodeproj"
      [] p = "windows" -> "librhino3dm_native.vcxproj"
      [] OTHER -> "Makefile"

\* an .xcodeproj is a folder, a Makefile and a .vcxproj are files
ArtifactKind(p) == IF p \in {"ios", "macos"} THEN "dir" ELSE "file"

MethodGenExe == join(src_folder, "MethodGen.exe")
AutoNativeMethods == join(join(src_folder, "dotnet"), "AutoNativeMethods.cs")
bootstrap_pyc == join(script_folder, "bootstrap.pyc")

----------------------------------------------------------------------------
(* Helpers of the platform setup (setup.py lines 129-162) *)

Parent(q) == SubSeq(q, 1, Len(q) - 1)

\* os.mkdir(p) can succeed: p is not '', and its parent is a directory
MkdirPossible(f, d, p) ==
    /\ p # <<>>
    /\ Parent(abspath(d, p)) \in DOMAIN f
    /\ f[Parent(abspath(d, p))] = "dir"

\* check_or_create_path; allowed tells whether the system lets mkdir succeed
check_or_create_path(f, d, p, allowed) ==
    IF exists(f, d, p)
    THEN [ret |-> p, fs |-> f, made |-> {}]
    ELSE IF allowed /\ MkdirPossible(f, d, p)
         THEN [ret |-> p, fs |-> AddPath(f, abspath(d, p), "dir"),
               made |-> {abspath(d, p)}]
         ELSE [ret |-> <<>>, fs |-> f, made |-> {}]

\* a variant that lets the caller go on over an existing configuration
overwrite_check_never_denies(f, d, item, ow) ==
    IF exists(f, d, item) /\ ow
    THEN [ret |-> TRUE,
          fs |-> IF isfile(f, d, item) THEN remove(f, abspath(d, item))
                 ELSE rmtree(f, abspath(d, item)),
          warned |-> FALSE]
    ELSE [ret |-> TRUE, fs |-> f, warned |-> FALSE]

\* a variant that removes files and leaves folders in place
overwrite_check_keeps_folders(f, d, item, ow) ==
    IF exists(f, d, item)
    THEN IF ~ow
         THEN [ret |-> FALSE, fs |-> f, warned |-> TRUE]
         ELSE [ret |-> TRUE,
               fs |-> IF isfile(f, d, item) THEN remove(f, abspath(d, item))
                      ELSE f,
               warned |-> FALSE]
    ELSE [ret |-> TRUE, fs |-> f, warned |-> FALSE]

\* a variant that removes folders and leaves files in place
overwrite_check_keeps_files(f, d, item, ow) ==
    IF exists(f, d, item)
    THEN IF ~ow
         THEN [ret |-> FALSE, fs |-> f, warned |-> TRUE]
         ELSE [ret |-> TRUE,
               fs |-> IF isdir(f, d, item) THEN rmtree(f, abspath(d, item))
                      ELSE f,
               warned |-> FALSE]
    ELSE [ret |-> TRUE, fs |-> f, warned |-> FALSE]

\* overwrite_check: the value returned, the filesystem left, the warning
overwrite_check(f, d, item, ow) ==
    IF exists(f, d, item)
    THEN IF ~ow
         THEN [ret |-> FALSE, fs |-> f, warned |-> TRUE]
         ELSE [ret |-> TRUE,
               fs |-> IF isfile(f, d, item) THEN remove(f, abspath(d, item))
                      ELSE IF isdir(f, d, item) THEN rmtree(f, abspath(d, item))
                      ELSE f,
               warned |-> FALSE]
    ELSE [ret |-> TRUE, fs |-> f, warned |-> FALSE]

setup_did_succeed(f, d, item) == exists(f, d, item)

----------------------------------------------------------------------------
(* Initial states *)

Hosts == {"darwin", "win32", "linux"}

\* a checkout in which setup.py has never run
FreshTree ==
    [q \in {<<"/">>, script_folder, src_folder, librhino3dm_native_folder}
        |-> "dir"]

PlatformDir(p) == join(build_folder, lower(platform_full_names[p]))

AbiDir(i) == join(PlatformDir("android"), app_abis[i])

\* a checkout in which every platform has been configured before
ConfiguredDirs ==
    {<<"/">>, script_folder, src_folder, librhino3dm_native_folder,
     build_folder, join(src_folder, "dotnet")}
    \cup {PlatformDir(p) : p \in Range(valid_platform_args)}
    \cup {AbiDir(i) : i \in 1..Len(app_abis)}
    \cup {join(PlatformDir(p), target_file_name(p)) : p \in {"ios", "macos"}}

ConfiguredFiles ==
    {join(PlatformDir(p), target_file_name(p)) : p \in {"js", "windows"}}
    \cup {join(AbiDir(i), "Makefile") : i \in 1..Len(app_abis)}
    \cup {MethodGenExe, AutoNativeMethods, bootstrap_pyc}

ConfiguredTree ==
    [q \in ConfiguredDirs \cup ConfiguredFiles |->
        IF q \in ConfiguredDirs THEN "dir" ELSE "file"]

\* a checkout in which only the third android ABI has been configured
PartialTree ==
    [q \in DOMAIN FreshTree
            \cup {build_folder, PlatformDir("android"), AbiDir(3),
                  join(AbiDir(3), "Makefile")} |->
        IF q = join(AbiDir(3), "Makefile") THEN "file" ELSE "dir"]

InitialTrees == {FreshTree, ConfiguredTree, PartialTree}

NoChild == [st |-> "none", todo |-> <<>>, nout |-> 0, nerr |-> 0]

NoGate == [path |-> <<>>, pre |-> << >>, ret |-> FALSE, post |-> << >>]

Init ==
    /\ host \in Hosts
    /\ overwrite \in BOOLEAN
    /\ verbose \in BOOLEAN
    /\ fs \in InitialTrees
    /\ args = <<>>
    /\ cwd = <<"/">>
    /\ pc = "main"
    /\ exitStatus = -1
    /\ exitReason = ""
    /\ platform_target = ""
    /\ ti = 0
    /\ plat = ""
    /\ target_path = <<>>
    /\ abi = 0
    /\ abi_target_path = <<>>
    /\ item_to_check = <<>>
    /\ stage = ""
    /\ child = NoChild
    /\ outBuf = <<>>
    /\ errBuf = <<>>
    /\ line = 0
    /\ echoed = <<>>
    /\ trace = <<>>
    /\ started = <<>>
    /\ outcomes = <<>>
    /\ launched = FALSE
    /\ created = {}
    /\ gate = NoGate
    /\ fs0 = << >>

----------------------------------------------------------------------------
(* Shorthands *)

input == <<host, overwrite, verbose>>
handlerVars == <<platform_target, ti>>
locals == <<plat, target_path, abi, abi_target_path, item_to_check>>
procVars == <<stage, child, outBuf, errBuf, line, echoed>>
histVars == <<trace, started, outcomes, launched, created, gate, fs0>>

\* sys.exit(status), or the interpreter ending on an uncaught exception
Exit(status, reason) ==
    /\ pc' = "exited"
    /\ exitStatus' = status
    /\ exitReason' = reason

Running == /\ exitStatus' = exitStatus
           /\ exitReason' = exitReason

\* one entry of the history of a setup_<plat> call
Log(tag) == Append(trace, <<tag, IF plat = "android" /\ abi \in 1..Len(app_abis)
                                 THEN app_abis[abi] ELSE plat>>)

\* delete_cache_file
delete_cache_file(f) ==
    IF bootstrap_pyc \in DOMAIN f THEN remove(f, bootstrap_pyc) ELSE f

----------------------------------------------------------------------------
(* main (setup.py lines 433-481) *)

Names == Range(valid_platform_args) \cup {"all", InvalidName}

\* the --platform lists of the model: one name, or a recognized name (or
\* "all") followed by an unrecognized one.  The loop of main reads the list
\* one name at a time, so args holds the names read so far and NextNames
\* the names that may come next
NextNames(a) ==
    IF Len(a) = 0 THEN Names
    ELSE IF Len(a) = 1 /\ a[1] # InvalidName THEN {InvalidName}
    ELSE {}

\* argument parsing, up to the loop over args.platform
main ==
    /\ pc = "main"
    /\ \E given \in {"nothing", "flags", "platform"} :
          CASE given = "nothing" ->
                 \* len(sys.argv) == 1: print_help, sys.exit(1)
                 /\ ~overwrite /\ ~verbose
                 /\ Exit(1, "usage")
                 /\ UNCHANGED <<fs, cwd>>
            [] given = "flags" ->
                 \* args.platform is None: the loop is skipped
                 /\ cwd' = script_folder
                 /\ fs' = delete_cache_file(fs)
                 /\ Exit(0, "done")
            [] given = "platform" ->
                 /\ cwd' = script_folder
                 /\ pc' = "main_loop"
                 /\ Running
                 /\ UNCHANGED fs
    /\ UNCHANGED <<input, args, handlerVars, locals, procVars, histVars>>

\* one iteration of: for platform_target in args.platform
main_loop ==
    /\ pc = "main_loop"
    /\ \E next \in NextNames(args) \cup {"<end>"} :
          IF next = "<end>"
          THEN /\ Len(args) > 0
               /\ fs' = delete_cache_file(fs)
               /\ Exit(0, "done")
               /\ UNCHANGED <<args, platform_target>>
          ELSE /\ args' = Append(args, next)
               /\ IF next # "all" /\ next \notin Range(valid_platform_args)
                  THEN /\ Exit(1, "badarg")
                       /\ UNCHANGED platform_target
                  ELSE /\ platform_target' = next
                       /\ pc' = "handler"
                       /\ Running
               /\ UNCHANGED fs
    /\ UNCHANGED <<input, cwd, ti, locals, procVars, histVars>>

----------------------------------------------------------------------------
(* setup_handler (setup.py lines 412-422) *)

\* a variant that walks the platforms in alphabetical order
TargetsSorted(t) ==
    IF t = "all" THEN <<"android", "ios", "js", "macos", "windows">>
    ELSE <<t>>

Targets(t) == IF t = "all" THEN valid_platform_args ELSE <<t>>

\* entry: create the build folder when it is missing
setup_handler ==
    /\ pc = "handler"
    /\ \E allowed \in BOOLEAN :
          IF exists(fs, cwd, build_folder)
          THEN /\ pc' = "dispatch"
               /\ Running
               /\ UNCHANGED <<fs, created>>
          ELSE IF allowed /\ MkdirPossible(fs, cwd, build_folder)
               THEN /\ fs' = AddPath(fs, build_folder, "dir")
                    /\ created' = created \cup {build_folder}
                    /\ pc' = "dispatch"
                    /\ Running
               ELSE \* os.mkdir raises, nothing catches it
                    /\ Exit(1, "exception")
                    /\ UNCHANGED <<fs, created>>
    /\ ti' = 1
    /\ started' = <<>>
    /\ outcomes' = <<>>
    /\ UNCHANGED <<input, args, cwd, platform_target, locals, procVars,
                   trace, launched, gate, fs0>>

\* the loop over the targets: call setup_<target>, or return to main
setup_handler_loop ==
    /\ pc = "dispatch"
    /\ IF ti <= Len(Targets(platform_target))
       THEN /\ plat' = Targets(platform_target)[ti]
            /\ started' = Append(started, Targets(platform_target)[ti])
            /\ fs0' = fs
            /\ pc' = "setup"
            /\ UNCHANGED ti
       ELSE /\ pc' = "main_loop"
            /\ ti' = 0
            /\ UNCHANGED <<plat, started, fs0>>
    /\ Running
    /\ UNCHANGED <<input, args, fs, cwd, platform_target, target_path, abi,
                   abi_target_path, item_to_check, procVars, trace, outcomes,
                   launched, created, gate>>

\* setup_<plat> returns value v to setup_handler
Return(v) ==
    /\ outcomes' = Append(outcomes, v)
    /\ pc' = "returned"
    /\ Running

\* setup_handler drops the value and goes on with its loop
setup_handler_next ==
    /\ pc = "returned"
    /\ pc' = "dispatch"
    /\ ti' = ti + 1
    /\ plat' = ""
    /\ target_path' = <<>>
    /\ abi' = 0
    /\ abi_target_path' = <<>>
    /\ item_to_check' = <<>>
    /\ trace' = <<>>
    /\ gate' = NoGate
    /\ fs0' = << >>
    /\ Running
    /\ UNCHANGED <<input, args, fs, cwd, platform_target, procVars, started,
                   outcomes, launched, created>>

----------------------------------------------------------------------------
(* External processes *)

\* what a child does before it exits: "o" writes a stdout line, "e" a
\* stderr line
Scripts == UNION {[1..n -> {"o", "e"}] : n \in 0..MaxChildOps}

\* what the command of a stage leaves in the filesystem when it works
Product(stg) ==
    CASE stg = "gen" -> [path |-> join(cwd, target_file_name(plat)),
                         kind |-> ArtifactKind(plat)]
      [] stg = "build" -> [path |-> MethodGenExe, kind |-> "file"]
      [] stg = "run" -> [path |-> AutoNativeMethods, kind |-> "file"]

\* subprocess.Popen at the top of run_command, on filesystem f
Popen(stg, f) ==
    \E found \in BOOLEAN, script \in Scripts :
        IF found
        THEN /\ child' = [st |-> "running", todo |-> script, nout |-> 0,
                          nerr |-> 0]
             /\ stage' = stg
             /\ launched' = TRUE
             /\ trace' = Log(stg)
             /\ fs' = f
             /\ pc' = "rc_readline"
             /\ Running
        ELSE \* the command does not exist: OSError, nothing catches it
             /\ Exit(1, "exception")
             /\ UNCHANGED <<child, stage, launched, trace, fs>>

\* the child writes its next line, unless the pipe is full
ChildWrite ==
    /\ pc # "exited"
    /\ child.st = "running"
    /\ child.todo # <<>>
    /\ IF Head(child.todo) = "o"
       THEN /\ Len(outBuf) < PipeCap
            /\ outBuf' = Append(outBuf, child.nout + 1)
            /\ child' = [child EXCEPT !.todo = Tail(@), !.nout = @ + 1]
            /\ UNCHANGED errBuf
       ELSE /\ Len(errBuf) < PipeCap
            /\ errBuf' = Append(errBuf, child.nerr + 1)
            /\ child' = [child EXCEPT !.todo = Tail(@), !.nerr = @ + 1]
            /\ UNCHANGED outBuf
    /\ UNCHANGED <<input, args, fs, cwd, pc, exitStatus, exitReason,
                   handlerVars, locals, stage, line, echoed, histVars>>

\* the child has done its work (its product is written or not) and closes
\* its ends of the pipes
ChildClose ==
    /\ pc # "exited"
    /\ child.st = "running"
    /\ child.todo = <<>>
    /\ child' = [child EXCEPT !.st = "closed"]
    /\ \E made \in BOOLEAN :
          fs' = IF made
                THEN AddPath(fs, Product(stage).path, Product(stage).kind)
                ELSE fs
    /\ UNCHANGED <<input, args, cwd, pc, exitStatus, exitReason, handlerVars,
                   locals, stage, outBuf, errBuf, line, echoed, histVars>>

\* the child terminates: poll() no longer returns None
ChildExit ==
    /\ pc # "exited"
    /\ child.st = "closed"
    /\ child' = [child EXCEPT !.st = "exited"]
    /\ UNCHANGED <<input, args, fs, cwd, pc, exitStatus, exitReason,
                   handlerVars, locals, stage, outBuf, errBuf, line, echoed,
                   histVars>>

----------------------------------------------------------------------------
(* run_command (setup.py lines 83-117) *)

\* no caller passes suppress_errors
suppress_errors == FALSE

\* the local that shadows the global verbose
run_command_verbose == TRUE

\* line = process.stdout.readline(): blocks for a line or the end of file;
\* 0 stands for the empty bytes object
run_command_readline ==
    /\ pc = "rc_readline"
    /\ IF outBuf # <<>>
       THEN /\ line' = Head(outBuf)
            /\ outBuf' = Tail(outBuf)
       ELSE /\ child.st \in {"closed", "exited"}
            /\ line' = 0
            /\ UNCHANGED outBuf
    /\ pc' = "rc_poll"
    /\ Running
    /\ UNCHANGED <<input, args, fs, cwd, handlerVars, locals, stage, child,
                   errBuf, echoed, histVars>>

\* a variant that takes the end of the child's output for its termination
poll_at_end_of_output(c) == c.st \in {"closed", "exited"}

\* process.poll() is not None: the child has terminated
poll(c) == c.st = "exited"

\* if process.poll() is not None: break; if line: print; elif: read stderr
run_command_poll ==
    /\ pc = "rc_poll"
    /\ IF poll(child)
       THEN /\ pc' = "rc_return"
            /\ UNCHANGED echoed
       ELSE IF line # 0
            THEN /\ echoed' = IF run_command_verbose
                              THEN Append(echoed, line) ELSE echoed
                 /\ pc' = "rc_readline"
            ELSE /\ pc' = IF suppress_errors = FALSE
                          THEN "rc_readerr" ELSE "rc_readline"
                 /\ UNCHANGED echoed
    /\ Running
    /\ UNCHANGED <<input, args, fs, cwd, handlerVars, locals, stage, child,
                   outBuf, errBuf, line, histVars>>

\* error = process.stderr.readline(): a line is fatal, the end of file is not
run_command_readerr ==
    /\ pc = "rc_readerr"
    /\ IF errBuf # <<>>
       THEN /\ errBuf' = Tail(errBuf)
            /\ Exit(1, "stderr")
       ELSE /\ child.st \in {"closed", "exited"}
            /\ pc' = "rc_readline"
            /\ Running
            /\ UNCHANGED errBuf
    /\ UNCHANGED <<input, args, fs, cwd, handlerVars, locals, stage, child,
                   outBuf, line, echoed, histVars>>


\* a variant in which the setup functions verify right after cmake
AfterCommandSkipsMethodgen(stg, p) ==
    CASE stg = "gen" -> "verify"
      [] stg = "build" -> "build_check"
      [] stg = "run" -> "run_check"

\* where the caller of run_command goes on: after its cmake command
\* setup_android verifies the Makefile, the others call build_methodgen;
\* build_methodgen and run_methodgen check what their command wrote
AfterCommand(stg, p) ==
    CASE stg = "gen" -> IF p = "android" THEN "verify" ELSE "build"
      [] stg = "build" -> "build_check"
      [] stg = "run" -> "run_check"

\* rc = process.poll(); return rc: no caller reads the value.  Control
\* goes back to the function that called run_command; the Popen object of
\* a terminated child is dropped, a child still alive would go on running
run_command_return ==
    /\ pc = "rc_return"
    /\ pc' = AfterCommand(stage, plat)
    /\ stage' = ""
    /\ child' = IF child.st = "exited" THEN NoChild ELSE child
    /\ outBuf' = <<>>
    /\ errBuf' = <<>>
    /\ line' = 0
    /\ echoed' = <<>>
    /\ trace' = Log(CASE stage = "gen" -> "gen_returned"
                       [] stage = "build" -> "build_returned"
                       [] stage = "run" -> "run_returned")
    /\ Running
    /\ UNCHANGED <<input, args, fs, cwd, handlerVars, locals, started,
                   outcomes, launched, created, gate, fs0>>

----------------------------------------------------------------------------
(* setup_js, setup_ios, setup_macos, setup_android, setup_windows          *)
(* (setup.py lines 236-409), step by step                                   *)

Bool(b) == IF b THEN "True" ELSE "False"

\* the host check of setup_ios, setup_macos and setup_windows
setup_precondition ==
    /\ pc = "setup"
    /\ IF host \in RequiredHosts(plat)
       THEN /\ pc' = "path"
            /\ Running
            /\ UNCHANGED <<trace, outcomes>>
       ELSE /\ trace' = Log("wrong_host")
            /\ Return("False")
    /\ UNCHANGED <<input, args, fs, cwd, handlerVars, locals, procVars,
                   started, launched, created, gate, fs0>>

\* target_path = check_or_create_path(build_folder/<platform>), and for all
\* but android item_to_check
setup_target_path ==
    /\ pc = "path"
    /\ \E allowed \in BOOLEAN :
          LET r == check_or_create_path(fs, cwd, PlatformDir(plat), allowed)
          IN  /\ target_path' = r.ret
              /\ fs' = r.fs
              /\ created' = created \cup r.made
              /\ IF plat = "android"
                 THEN /\ abi' = 1
                      /\ pc' = "abi"
                      /\ UNCHANGED item_to_check
                 ELSE /\ item_to_check' =
                            abspath(cwd, join(r.ret, target_file_name(plat)))
                      /\ pc' = "gate"
                      /\ UNCHANGED abi
    /\ Running
    /\ UNCHANGED <<input, args, cwd, handlerVars, plat, abi_target_path,
                   procVars, trace, started, outcomes, launched, gate, fs0>>

\* setup_android: head of the loop over app_abis
setup_android_abi ==
    /\ pc = "abi"
    /\ IF abi <= Len(app_abis)
       THEN \E allowed \in BOOLEAN :
              LET r == check_or_create_path(
                           fs, cwd, join(target_path, app_abis[abi]), allowed)
              IN  /\ abi_target_path' = r.ret
                  /\ abi' = abi
                  /\ fs' = r.fs
                  /\ created' = created \cup r.made
                  /\ item_to_check' = abspath(cwd, join(r.ret, "Makefile"))
                  /\ pc' = "gate"
       ELSE \* the loop is over: app_abi is not read again
            /\ abi' = 0
            /\ pc' = "build"
            /\ UNCHANGED <<abi_target_path, fs, created, item_to_check>>
    /\ Running
    /\ UNCHANGED <<input, args, cwd, handlerVars, plat, target_path,
                   procVars, trace, started, outcomes, launched, gate, fs0>>

\* a variant that goes on whatever overwrite_check returned
setup_gate_passes_always(ret) == TRUE

\* "if not overwrite_check(item_to_check): return False": the setup function
\* goes on when the value is true
setup_gate_passes(ret) == ret

\* if not overwrite_check(item_to_check): return False
setup_gate ==
    /\ pc = "gate"
    /\ LET r == overwrite_check(fs, cwd, item_to_check, overwrite)
       IN  /\ fs' = r.fs
           /\ gate' = [path |-> item_to_check, pre |-> fs, ret |-> r.ret,
                       post |-> r.fs]
           /\ IF setup_gate_passes(r.ret)
              THEN /\ trace' = Log("gate_ok")
                   /\ pc' = "chdir"
                   /\ Running
                   /\ UNCHANGED outcomes
              ELSE /\ trace' = Log("warning")
                   /\ Return("False")
    /\ UNCHANGED <<input, args, cwd, handlerVars, locals, procVars, started,
                   launched, created, fs0>>

\* os.chdir(target_path), in setup_android os.chdir(abi_target_path)
setup_chdir ==
    /\ pc = "chdir"
    /\ LET tp == IF plat = "android" THEN abi_target_path ELSE target_path
       IN  IF isdir(fs, cwd, tp)
           THEN /\ cwd' = abspath(cwd, tp)
                /\ pc' = "gen"
                /\ Running
           ELSE \* os.chdir('') raises, nothing catches it
                /\ Exit(1, "exception")
                /\ UNCHANGED cwd
    /\ UNCHANGED <<input, args, fs, handlerVars, locals, procVars, histVars>>

\* setup_js: Popen and communicate (the Python 3 branch, lines 322-329; the
\* Python 2 branch differs in the message it prints); an OSError of Popen
\* is caught.  communicate drains both pipes and waits for the child
setup_js_generate ==
    /\ pc = "gen"
    /\ plat = "js"
    /\ \E found \in BOOLEAN, script \in Scripts, made \in BOOLEAN :
          IF found
          THEN /\ launched' = TRUE
               /\ trace' = Append(Log("gen"),
                     <<IF "o" \in Range(script) THEN "output"
                       ELSE IF "e" \in Range(script) THEN "error"
                       ELSE "silent", plat>>)
               /\ fs' = IF made
                        THEN AddPath(fs, Product("gen").path,
                                     Product("gen").kind)
                        ELSE fs
               /\ pc' = "verify"
               /\ Running
               /\ UNCHANGED outcomes
          ELSE /\ trace' = Log("no_emcmake")
               /\ Return("False")
               /\ UNCHANGED <<launched, fs>>
    /\ UNCHANGED <<input, args, cwd, handlerVars, locals, procVars, started,
                   created, gate, fs0>>

\* the cmake command of setup_ios, setup_macos, setup_android, setup_windows
setup_generate ==
    /\ pc = "gen"
    /\ plat # "js"
    /\ Popen("gen", fs)
    /\ outBuf' = <<>>
    /\ errBuf' = <<>>
    /\ UNCHANGED <<input, args, cwd, handlerVars, locals, line, echoed,
                   started, outcomes, created, gate, fs0>>

\* a variant that goes on with the next ABI after a failed verification
AbiAfterVerifyContinue(ok, i) == i + 1

\* setup_android after setup_did_succeed on ABI i: the next index, or 0
\* for break
AbiAfterVerify(ok, i) == IF ok THEN i + 1 ELSE 0

\* setup_did_succeed(item_to_check): the value returned by all but
\* setup_android, which leaves its loop on the first failure
setup_verify ==
    /\ pc = "verify"
    /\ LET ok == setup_did_succeed(fs, cwd, item_to_check)
       IN  /\ trace' = Log(IF ok THEN "verify_ok" ELSE "verify_failed")
           /\ IF plat = "android"
              THEN /\ abi' = AbiAfterVerify(ok, abi)
                   /\ pc' = IF AbiAfterVerify(ok, abi) = 0
                            THEN "build" ELSE "abi"
                   /\ Running
                   /\ UNCHANGED outcomes
              ELSE /\ Return(Bool(ok))
                   /\ UNCHANGED abi
    /\ UNCHANGED <<input, args, fs, cwd, handlerVars, plat, target_path,
                   abi_target_path, item_to_check, procVars, started, launched,
                   created, gate, fs0>>

----------------------------------------------------------------------------
(* The MethodGen stage (setup.py lines 165-233) *)

\* how the callers go on after run_methodgen: setup_android falls off its
\* end and returns None, the others verify their project file
AfterMethodgen ==
    IF plat = "android"
    THEN Return("None")
    ELSE /\ pc' = "verify"
         /\ Running
         /\ UNCHANGED outcomes

\* build_methodgen: the msbuild command
build_methodgen ==
    /\ pc = "build"
    /\ Popen("build", fs)
    /\ outBuf' = <<>>
    /\ errBuf' = <<>>
    /\ UNCHANGED <<input, args, cwd, handlerVars, locals, line, echoed,
                   started, outcomes, created, gate, fs0>>

\* build_methodgen: was MethodGen.exe written?  The callers drop the answer
build_methodgen_check ==
    /\ pc = "build_check"
    /\ trace' = Log(IF exists(fs, cwd, MethodGenExe)
                    THEN "build_ok" ELSE "build_failed")
    /\ pc' = "runtool"
    /\ Running
    /\ UNCHANGED <<input, args, fs, cwd, handlerVars, locals, procVars,
                   started, outcomes, launched, created, gate, fs0>>

\* a variant without the check that MethodGen.exe exists
run_methodgen_launches_always(f, d) == TRUE

\* whether run_methodgen launches MethodGen.exe on filesystem f
run_methodgen_launches(f, d) == exists(f, d, MethodGenExe)

\* a variant that leaves an older AutoNativeMethods.cs in place
run_methodgen_keeps_older(f, d) == f

\* run_methodgen: "remove any older file there..."
run_methodgen_remove(f, d) ==
    IF exists(f, d, AutoNativeMethods) THEN remove(f, AutoNativeMethods) ELSE f

\* run_methodgen: give up without MethodGen.exe, else remove the older
\* AutoNativeMethods.cs and launch MethodGen.exe
run_methodgen ==
    /\ pc = "runtool"
    /\ IF run_methodgen_launches(fs, cwd)
       THEN /\ Popen("run", run_methodgen_remove(fs, cwd))
            /\ outBuf' = <<>>
            /\ errBuf' = <<>>
            /\ UNCHANGED outcomes
       ELSE /\ trace' = Log("no_methodgen_exe")
            /\ AfterMethodgen
            /\ UNCHANGED <<fs, stage, child, outBuf, errBuf, launched>>
    /\ UNCHANGED <<input, args, cwd, handlerVars, locals, line, echoed,
                   started, created, gate, fs0>>

\* run_methodgen: was AutoNativeMethods.cs written?
run_methodgen_check ==
    /\ pc = "run_check"
    /\ trace' = Log(IF exists(fs, cwd, AutoNativeMethods)
                    THEN "run_ok" ELSE "run_failed")
    /\ AfterMethodgen
    /\ UNCHANGED <<input, args, fs, cwd, handlerVars, locals, procVars,
                   started, launched, created, gate, fs0>>

----------------------------------------------------------------------------
(* The program *)

Next ==
    \/ main
    \/ main_loop
    \/ setup_handler
    \/ setup_handler_loop
    \/ setup_handler_next
    \/ setup_precondition
    \/ setup_target_path
    \/ setup_android_abi
    \/ setup_gate
    \/ setup_chdir
    \/ setup_js_generate
    \/ setup_generate
    \/ setup_verify
    \/ build_methodgen
    \/ build_methodgen_check
    \/ run_methodgen
    \/ run_methodgen_check
    \/ run_command_readline
    \/ run_command_poll
    \/ run_command_readerr
    \/ run_command_return
    \/ ChildWrite
    \/ ChildClose
    \/ ChildExit

Spec == Init /\ [][Next]_vars

----------------------------------------------------------------------------
(* Properties *)

Last(sq) == sq[Len(sq)]

\* the tags of the history of the current setup_<plat> call, in order
Tags == [i \in DOMAIN trace |-> trace[i][1]]

\* the units (platform or ABI) for which tag t was logged, in order
RECURSIVE UnitsFrom(_, _, _)
UnitsFrom(tr, t, i) ==
    IF i > Len(tr) THEN <<>>
    ELSE (IF tr[i][1] = t THEN <<tr[i][2]>> ELSE <<>>) \o UnitsFrom(tr, t, i + 1)

Units(t) == UnitsFrom(trace, t, 1)

Logged(t) == \E i \in DOMAIN trace : trace[i][1] = t

\* the current setup_<plat> call launched an external process
LaunchedAny ==
    Logged("gen") \/ Logged("build") \/ Logged("run")

(* C1: a --platform list with an unrecognized name ends with exit status 1  *)
(* and, up to there, no directory was created and no external process was   *)
(* launched, also when the unrecognized name follows valid names.           *)
C1_BadNameBeforeSideEffects ==
    (pc = "exited" /\ exitReason = "badarg") =>
        /\ exitStatus = 1
        /\ created = {}
        /\ ~launched

(* C2: under "all" the platforms are started once each, in the order js,    *)
(* ios, macos, android, windows; a platform that returns a failure (wrong   *)
(* host, already configured, artifact missing) is followed by the next      *)
(* one, and when setup_handler is done each platform has returned once.     *)
C2_AllInOrderPastFailures ==
    platform_target = "all" =>
        /\ started = SubSeq(valid_platform_args, 1, Len(started))
        /\ Len(outcomes) <= Len(started)
        /\ Len(started) <= Len(outcomes) + 1
        /\ pc = "setup" => (plat = valid_platform_args[ti]
                            /\ Len(started) = ti /\ Len(outcomes) = ti - 1)
        /\ pc = "returned" => (Len(started) = ti /\ Len(outcomes) = ti)
        /\ pc = "dispatch" => (Len(started) = ti - 1 /\ Len(outcomes) = ti - 1)
        /\ (pc = "main_loop" \/ (pc = "exited" /\ exitReason \in {"done", "badarg"}))
              => (started = valid_platform_args
                  /\ Len(outcomes) = Len(valid_platform_args))
        /\ (pc = "exited" /\ Len(started) < Len(valid_platform_args))
              => exitReason \in {"stderr", "exception"}

\* "all" on a host where ios, macos and windows fail their host check and
\* js was already configured: all five were started, all five returned
C2_Witness ==
    /\ platform_target = "all"
    /\ pc = "exited"
    /\ exitReason = "done"
    /\ host = "linux"
    /\ started = valid_platform_args
    /\ Len(outcomes) = 5
    /\ outcomes[1] = "False"
    /\ outcomes[2] = "False"
    /\ outcomes[5] = "False"

(* C3: a generator that writes a stderr line and no stdout line ends the    *)
(* whole process with status 1; no later step of the platform is reached,   *)
(* for every platform and every interleaving of the child's exit with the   *)
(* reader loop.                                                             *)
C3_GeneratorStderrIsFatal ==
    ~(/\ pc = "rc_return"
      /\ stage = "gen"
      /\ child.nout = 0
      /\ child.nerr > 0)


\* the success artifact of a platform in the build folder; for android the
\* Makefile of the first ABI, the one its loop looks at first
ArtifactOf(p) ==
    IF p = "android" THEN join(AbiDir(1), "Makefile")
    ELSE join(PlatformDir(p), target_file_name(p))

\* the host requirement as the specification words it
HostMatches(p, h) ==
    /\ p \in {"ios", "macos"} => h = "darwin"
    /\ p = "windows" => h \in {"win32", "win64"}

(* C4 as stated: for every platform, when its success artifact exists and   *)
(* overwrite is disabled, the setup run emits the already-configured        *)
(* warning, launches no external process, leaves every file unchanged and   *)
(* returns failure.                                                         *)
C4_ConfiguredIsSkippedWithWarning ==
    (pc = "returned" /\ ~overwrite /\ ArtifactOf(plat) \in DOMAIN fs0) =>
        /\ Logged("warning")
        /\ ~LaunchedAny
        /\ fs = fs0
        /\ Last(outcomes) = "False"

(* C4 amended: the same, for a platform whose host requirement is met (on   *)
(* another host the run fails with the wrong-host error and no warning);    *)
(* in every case no process is launched, no file changes, the outcome is    *)
(* failure.                                                                 *)
C4_ConfiguredIsSkipped ==
    (plat # "" /\ ~overwrite /\ ArtifactOf(plat) \in DOMAIN fs0) =>
        /\ ~LaunchedAny
        /\ fs = fs0
        /\ pc \in {"setup", "path", "abi", "gate", "returned"}
        /\ pc = "returned" =>
              /\ Last(outcomes) = "False"
              /\ HostMatches(plat, host) => Last(trace)[1] = "warning"
              /\ ~HostMatches(plat, host) => ~Logged("warning")

C4_Witness ==
    /\ pc = "returned"
    /\ plat = "js"
    /\ ~overwrite
    /\ ArtifactOf("js") \in DOMAIN fs0
    /\ Logged("warning")
    /\ Last(outcomes) = "False"

(* C5: overwrite_check on a path that does not exist allows and changes     *)
(* nothing; on an existing path with overwrite disabled it denies and       *)
(* changes nothing; on an existing file or directory with overwrite enabled *)
(* it removes the path (a directory with all below it, nothing else) and    *)
(* allows; whenever it allows, the path does not exist afterwards.          *)
C5_GateDecision ==
    gate.path # <<>> =>
        LET was == gate.path \in DOMAIN gate.pre
        IN  /\ ~was => (gate.ret /\ gate.post = gate.pre)
            /\ (was /\ ~overwrite) => (~gate.ret /\ gate.post = gate.pre)
            /\ (was /\ overwrite) =>
                  /\ gate.ret
                  /\ DOMAIN gate.post =
                        {q \in DOMAIN gate.pre : ~IsPrefix(gate.path, q)}
                  /\ \A q \in DOMAIN gate.post : gate.post[q] = gate.pre[q]
            /\ gate.ret => gate.path \notin DOMAIN gate.post

\* the gate has removed a configured project folder with what was in it
C5_Witness ==
    /\ gate.path # <<>>
    /\ gate.ret
    /\ overwrite
    /\ gate.path \in DOMAIN gate.pre
    /\ gate.pre[gate.path] = "dir"
    /\ gate.path \notin DOMAIN gate.post

(* C6: ios and macos off a macOS host, windows off a Windows host: the      *)
(* setup run returns failure after reporting the error, launches no         *)
(* process, creates no directory, does not apply the gate, and the run      *)
(* goes on.                                                                 *)
C6_WrongHostFailsCleanly ==
    (plat \in {"ios", "macos", "windows"} /\ ~HostMatches(plat, host)) =>
        /\ pc \in {"setup", "returned"}
        /\ exitStatus = -1
        /\ fs = fs0
        /\ gate = NoGate
        /\ ~LaunchedAny
        /\ pc = "returned" =>
              /\ trace = << <<"wrong_host", plat>> >>
              /\ Last(outcomes) = "False"

C6_Witness ==
    /\ pc = "returned"
    /\ plat = "windows"
    /\ host = "linux"
    /\ Last(outcomes) = "False"
    /\ PlatformDir("windows") \notin DOMAIN fs


\* the index of the first entry of the history with tag t (0 when none)
First(t) ==
    IF Logged(t) THEN CHOOSE i \in DOMAIN trace :
                        /\ trace[i][1] = t
                        /\ \A j \in 1..(i - 1) : trace[j][1] # t
    ELSE 0

\* setup_android on a checkout without a build folder, overwrite disabled
FreshAndroid ==
    /\ plat = "android"
    /\ ~overwrite
    /\ build_folder \in created

(* C7 as stated: android, no prior build folder, overwrite disabled: all    *)
(* four ABI folders are created and the generator runs once per ABI in      *)
(* order, also after an ABI whose verification failed; four outcomes.       *)
C7_EveryAbiDespiteFailure ==
    (/\ FreshAndroid
     /\ pc = "returned"
     /\ PlatformDir("android") \in created
     /\ ~Logged("warning")) =>
        /\ Units("gen") = app_abis
        /\ \A i \in 1..Len(app_abis) : AbiDir(i) \in created
        /\ Len(Units("verify_ok")) + Len(Units("verify_failed")) = Len(app_abis)

(* C7 amended: the generator runs for the ABIs in the order armeabi-v7a,    *)
(* arm64-v8a, x86_64, x86, once each, as long as every earlier ABI was      *)
(* verified; the loop ends at the first ABI whose verification fails: no    *)
(* later ABI folder is created, no later generator runs.  One verification  *)
(* per generator run; all four when no verification fails.                  *)
C7_AbisInOrderUntilFailure ==
    FreshAndroid =>
        LET gens == Units("gen")
            oks == Units("verify_ok")
            fails == Units("verify_failed")
        IN  /\ gens = SubSeq(app_abis, 1, Len(gens))
            /\ oks = SubSeq(app_abis, 1, Len(oks))
            /\ Len(oks) + Len(fails) <= Len(gens)
            /\ Len(gens) <= Len(oks) + Len(fails) + 1
            /\ Len(fails) <= 1
            /\ fails # <<>> =>
                  /\ fails[1] = app_abis[Len(gens)]
                  /\ Len(oks) = Len(gens) - 1
                  /\ \A i \in (Len(gens) + 1)..Len(app_abis) :
                        AbiDir(i) \notin DOMAIN fs
            /\ PlatformDir("android") \in created =>
                  \A i \in 1..Len(gens) : AbiDir(i) \in created
            /\ (pc = "returned" /\ fails = <<>> /\ ~Logged("warning")) =>
                  (gens = app_abis /\ oks = app_abis)

\* all four ABIs configured in one run
C7_Witness ==
    /\ FreshAndroid
    /\ pc = "returned"
    /\ Units("gen") = app_abis
    /\ Units("verify_ok") = app_abis
    /\ \A i \in 1..Len(app_abis) : AbiDir(i) \in created

(* C8: MethodGen.exe is launched only right after build_methodgen ran       *)
(* msbuild and found MethodGen.exe; when the build check failed the         *)
(* executable is not launched.                                              *)
C8_RunOnlyAfterVerifiedBuild ==
    /\ \A i \in DOMAIN trace :
          Tags[i] = "run" =>
              /\ i > 3
              /\ Tags[i - 1] = "build_ok"
              /\ Tags[i - 2] = "build_returned"
              /\ Tags[i - 3] = "build"
    /\ \A i \in DOMAIN trace :
          (Tags[i] = "build_failed" /\ i < Len(trace)) =>
              Tags[i + 1] = "no_methodgen_exe"
    /\ stage = "run" => MethodGenExe \in DOMAIN fs

C8_Witness ==
    /\ Logged("build_failed")
    /\ Logged("no_methodgen_exe")
    /\ ~Logged("run")
    /\ pc = "returned"

(* C9: a setup run that passed the gate and reached its verification        *)
(* returns success exactly when the success artifact existed at the         *)
(* verification, whatever the generator's exit status and the MethodGen     *)
(* stage did.                                                               *)
C9_OutcomeIsArtifactExistence ==
    (/\ pc = "returned"
     /\ Logged("verify_ok") \/ Logged("verify_failed")
     /\ Last(trace)[1] # "warning") =>
        (Last(outcomes) = "True" <=> ~Logged("verify_failed"))

\* the generator of the current setup run was launched and has returned
GeneratorReturned ==
    Logged("gen_returned") \/ (plat = "js" /\ Logged("gen"))

\* after index i of the history build_methodgen was called and after it
\* run_methodgen
MethodgenAfter(i) ==
    \E b \in DOMAIN trace, r \in DOMAIN trace :
        /\ i < b
        /\ b < r
        /\ Tags[b] = "build"
        /\ Tags[r] \in {"run", "no_methodgen_exe"}

(* C10 as stated: for every platform, when the generator was launched and   *)
(* returned, build_methodgen and then run_methodgen are called before the   *)
(* setup run returns its result.                                            *)
C10_MethodgenAfterEveryGenerator ==
    (pc = "returned" /\ GeneratorReturned) => MethodgenAfter(First("gen"))

(* C10 amended: for ios, macos and windows, when the generator was launched *)
(* and returned, build_methodgen is called next and run_methodgen after it, *)
(* before the verification, whether or not the artifact exists.  For        *)
(* android the two are called after the loop over the ABIs, that is after   *)
(* the verifications, and not at all when the gate denies a later ABI.      *)
(* setup_js calls neither.                                                  *)
C10_MethodgenAfterGenerator ==
    /\ (plat \in {"ios", "macos", "windows"} /\ Logged("gen_returned")
        /\ pc \in {"verify", "returned"}) =>
          /\ First("gen_returned") < Len(trace)
          /\ Tags[First("gen_returned") + 1] = "build"
          /\ MethodgenAfter(First("gen_returned"))
          /\ pc = "returned" =>
                /\ Last(trace)[1] \in {"verify_ok", "verify_failed"}
                /\ First("verify_ok") + First("verify_failed") = Len(trace)
    /\ (plat = "android" /\ pc = "returned" /\ Logged("gen_returned")) =>
          IF Last(trace)[1] = "warning"
          THEN ~Logged("build") /\ Last(outcomes) = "False"
          ELSE /\ Last(outcomes) = "None"
               /\ \E v \in DOMAIN trace :
                     /\ Tags[v] \in {"verify_ok", "verify_failed"}
                     /\ \A w \in DOMAIN trace :
                           Tags[w] \in {"verify_ok", "verify_failed", "gen"}
                              => w <= v
                     /\ MethodgenAfter(v)
    /\ plat = "js" =>
          ~(Logged("build") \/ Logged("run") \/ Logged("no_methodgen_exe"))

\* macos: generator returned without writing the project, MethodGen ran
C10_Witness ==
    /\ pc = "returned"
    /\ plat = "macos"
    /\ Logged("gen_returned")
    /\ Logged("run")
    /\ Last(trace)[1] = "verify_failed"

----------------------------------------------------------------------------
(* C11: whenever MethodGen.exe is launched, AutoNativeMethods.cs does not   *)
(* exist at the moment of launch, and it does not exist for as long as the  *)
(* launched process has not finished its work: a file that run_methodgen    *)
(* finds afterwards was written by that process, never left by an earlier   *)
(* run.                                                                     *)
C11_NoStaleGeneratedFile ==
    (stage = "run" /\ child.st = "running") =>
        AutoNativeMethods \notin DOMAIN fs

\* MethodGen.exe launched in a checkout that held an older
\* AutoNativeMethods.cs when the platform's setup began
C11_Witness ==
    /\ stage = "run"
    /\ child.st = "running"
    /\ pc = "rc_readline"
    /\ AutoNativeMethods \in DOMAIN fs0
    /\ AutoNativeMethods \notin DOMAIN fs

----------------------------------------------------------------------------
(* C12: the process exits with status 0 whenever the loop of main          *)
(* completes, whatever the platform setups returned, and past argument      *)
(* parsing the only runs that end with status 1 are those that met an      *)
(* unrecognized platform name or a stderr line of a subprocess.             *)
C12_OnlyBadNameOrStderrEndEarly ==
    pc = "exited" =>
        /\ exitReason = "done" <=> exitStatus = 0
        /\ exitStatus # 0 =>
              /\ exitStatus = 1
              /\ exitReason \in {"usage", "badarg", "stderr"}
              /\ exitReason = "usage" <=> args = <<>>

----------------------------------------------------------------------------
(* C13: run_command prints the stdout lines of its subprocess if and only   *)
(* if the verbose flag is set: in a run without --verbose no stdout line    *)
(* of a generator, build or MethodGen process is printed.                   *)
C13_EchoOnlyWhenVerbose ==
    ~verbose => echoed = <<>>

----------------------------------------------------------------------------
\* the platforms and the ABI variants of android, as <<platform, ABI index>>
SetupUnits ==
    {<<p, 0>> : p \in Range(valid_platform_args) \ {"android"}}
       \cup {<<"android", i>> : i \in DOMAIN app_abis}

\* the folder and the artifact named after a platform or ABI variant
OutputDirOf(u) == IF u[1] = "android" THEN AbiDir(u[2]) ELSE PlatformDir(u[1])
ArtifactPathOf(u) == join(OutputDirOf(u), target_file_name(u[1]))

(* C14: under the fixed build folder the output folder and the artifact     *)
(* path of a platform (of an ABI variant for android) depend on the         *)
(* platform (and ABI) alone, and no two platforms or ABI variants have the  *)
(* same output folder or the same artifact path.  Stated on the paths a     *)
(* setup function holds when it calls overwrite_check.                      *)
C14_PathsByPlatform ==
    /\ \A u, v \in SetupUnits :
          u # v => /\ OutputDirOf(u) # OutputDirOf(v)
                   /\ ArtifactPathOf(u) # ArtifactPathOf(v)
    /\ pc = "gate" =>
          /\ <<plat, abi>> \in SetupUnits
          /\ item_to_check = ArtifactPathOf(<<plat, abi>>)
          /\ (IF plat = "android" THEN abi_target_path ELSE target_path)
                = OutputDirOf(<<plat, abi>>)

----------------------------------------------------------------------------
(* C15: in the read loop of run_command every stdout line the child wrote   *)
(* before it terminated is echoed exactly once and in the order written,    *)
(* however the child's exit interleaves with readline and poll: the lines   *)
(* echoed are always the first lines written, and when the loop is left     *)
(* they are all the lines written.                                          *)
C15_EveryLineEchoedOnce ==
    /\ \A i \in DOMAIN echoed : echoed[i] = i
    /\ Len(echoed) <= child.nout
    /\ pc = "rc_return" => Len(echoed) = child.nout

----------------------------------------------------------------------------
(* C16: in setup_android, when overwrite_check denies an ABI (its Makefile  *)
(* exists and overwrite is off) the function returns False at once: cmake   *)
(* has run for the ABIs before it and for no other, neither MethodGen       *)
(* build nor run is started, and the filesystem is as it was before the     *)
(* check, the Makefiles generated for the earlier ABIs included.            *)
C16_DeniedAbiAbortsAndroid ==
    (plat = "android" /\ gate.path # <<>> /\ ~gate.ret) =>
        /\ ~overwrite
        /\ gate.path \in DOMAIN gate.pre
        /\ pc = "returned"
        /\ Last(outcomes) = "False"
        /\ abi \in DOMAIN app_abis
        /\ Last(trace) = <<"warning", app_abis[abi]>>
        /\ Units("gen") = SubSeq(app_abis, 1, abi - 1)
        /\ Units("verify_ok") = SubSeq(app_abis, 1, abi - 1)
        /\ ~(Logged("build") \/ Logged("run") \/ Logged("no_methodgen_exe"))
        /\ fs = gate.pre

\* the third ABI is denied after cmake ran for the first two
C16_Witness ==
    /\ plat = "android"
    /\ pc = "returned"
    /\ gate.path = join(AbiDir(3), "Makefile")
    /\ ~gate.ret
    /\ Units("gen") = SubSeq(app_abis, 1, 2)
    /\ \A i \in 1..2 : join(AbiDir(i), "Makefile") \in DOMAIN fs

----------------------------------------------------------------------------
\* this step launches an external process: a cmake, msbuild or MethodGen
\* command enters the trace of the setup call
LaunchStep ==
    /\ Len(trace') > Len(trace)
    /\ trace'[Len(trace) + 1][1] \in {"gen", "build", "run"}

(* C17: external processes never overlap: a step that launches a generator, *)
(* the MethodGen build or MethodGen itself is taken only when every process *)
(* launched before has terminated.                                          *)
C17_ProcessesNeverOverlap ==
    [][LaunchStep => child.st \in {"none", "exited"}]_vars

\* the MethodGen build was launched after cmake had terminated and
\* run_command had returned
C17_Witness ==
    /\ stage = "build"
    /\ child.st = "running"
    /\ Logged("gen_returned")
    /\ Tags[Len(trace)] = "build"

----------------------------------------------------------------------------
\* run_command or its child can take a step
RunnerOrChildCanStep ==
    ENABLED (\/ run_command_readline
             \/ run_command_poll
             \/ run_command_readerr
             \/ run_command_return
             \/ ChildWrite
             \/ ChildClose
             \/ ChildExit)

(* C18: run_command never deadlocks with its child: for a child that       *)
(* writes finitely many stdout and stderr lines into pipes of bounded      *)
(* capacity and then exits, run_command in the end returns or ends the     *)
(* process, so that, while it is in its loop, it or the child can always   *)
(* take a step, also when the child writes to stderr while run_command is  *)
(* blocked in stdout.readline().                                            *)
C18_RunnerNeverStuck ==
    pc \in {"rc_readline", "rc_poll", "rc_readerr", "rc_return"} =>
        RunnerOrChildCanStep

----------------------------------------------------------------------------
(* C19: with overwrite enabled, overwrite_check only ever deletes the       *)
(* artifact path inside the output folder of the platform or ABI being set  *)
(* up, never the artifact of another platform nor a path outside the build  *)
(* folder, also when the output folder could not be created and             *)
(* check_or_create_path returned ''.  Stated right after the call: every    *)
(* path the call removed is the artifact of the current platform or ABI, or *)
(* lies below it.                                                           *)
C19_GateDeletesOnlyOwnArtifact ==
    (pc = "chdir" /\ gate.path # <<>>) =>
        \A q \in DOMAIN gate.pre \ DOMAIN gate.post :
            /\ <<plat, abi>> \in SetupUnits
            /\ IsPrefix(ArtifactPathOf(<<plat, abi>>), q)

----------------------------------------------------------------------------
(* C20: whenever the generator of a platform or ABI is launched, with       *)
(* overwrite on or off, the artifact that setup function checks does not    *)
(* exist, and it stays absent until the generator has done its work: an     *)
(* artifact found by setup_did_succeed was written after overwrite_check    *)
(* was applied in the same call.                                            *)
C20_NoArtifactAtGeneratorLaunch ==
    /\ (pc = "gen" \/ (stage = "gen" /\ child.st = "running")) =>
          /\ item_to_check \notin DOMAIN fs
          /\ gate.path = item_to_check
          /\ gate.ret
    /\ (pc = "verify" /\ setup_did_succeed(fs, cwd, item_to_check)) =>
          /\ gate.path = item_to_check
          /\ item_to_check \notin DOMAIN gate.post

\* cmake launched, with overwrite on, for a platform whose artifact existed
\* when its setup function was called
C20_Witness ==
    /\ stage = "gen"
    /\ child.st = "running"
    /\ overwrite
    /\ item_to_check \in DOMAIN fs0
    /\ item_to_check \notin DOMAIN fs

====
